---- MODULE Spec2Model ----
(***************************************************************************)
(* Model of config-builder/build-config.py: the 6plane address derivation, *)
(* the interface namer, the suffix (prefix) allocator and the Config /     *)
(* IfaceConfig data model with its two-pass construction.                  *)
(*                                                                         *)
(* Python integers are unbounded.  A non-negative integer is modelled as   *)
(* the sequence of its base-256 digits, least significant first, without   *)
(* leading zero digits (0 is <<>>); a signed integer is a record           *)
(* [neg, mag].  Strings are sequences of one-character strings.            *)
(***************************************************************************)
EXTENDS Integers, Sequences, FiniteSets, TLC

(***************************************************************************)
(* Unbounded non-negative integers                                         *)
(***************************************************************************)
Base == 256

\* Evaluate x (x and y) once and hand the value(s) to F: the local names of
\* the Python code, each bound when the statement that assigns it runs.
Bind(x, F(_)) == CHOOSE r \in {F(v) : v \in {x}} : TRUE

Bind2(x, y, F(_, _)) == CHOOSE r \in {F(v, w) : v \in {x}, w \in {y}} : TRUE

SetMax(S) == CHOOSE m \in S : \A j \in S : j <= m

SetMin(S) == CHOOSE m \in S : \A j \in S : m <= j

Digit(x, i) == IF i >= 1 /\ i <= Len(x) THEN x[i] ELSE 0

NormV(v) ==
  LET hi == {i \in 1..Len(v) : v[i] # 0}
  IN IF hi = {} THEN <<>> ELSE SubSeq(v, 1, SetMax(hi))

Norm(x) == Bind(x, LAMBDA v : NormV(v))

Width(x, y) == IF Len(x) >= Len(y) THEN Len(x) ELSE Len(y)

FromNat(n) == Norm([i \in 1..4 |-> (n \div (Base ^ (i - 1))) % Base])

\* Value of a short digit sequence as a native integer (at most 3 digits).
ToNat(x) == Bind(x, LAMBDA v : Digit(v, 1) + Base * Digit(v, 2) + Base * Base * Digit(v, 3))

BitOf(a, n) == (a \div (2 ^ n)) % 2

DigitXor(a, b) ==
  LET t(n) == ((BitOf(a, n) + BitOf(b, n)) % 2) * (2 ^ n)
  IN t(0) + t(1) + t(2) + t(3) + t(4) + t(5) + t(6) + t(7)

DigitAnd(a, b) ==
  LET t(n) == (BitOf(a, n) * BitOf(b, n)) * (2 ^ n)
  IN t(0) + t(1) + t(2) + t(3) + t(4) + t(5) + t(6) + t(7)

\* x ^ y
Xor(x, y) ==
  Bind2(x, y, LAMBDA a, b :
    Norm([i \in 1..Width(a, b) |-> DigitXor(Digit(a, i), Digit(b, i))]))

\* x & y
And(x, y) ==
  Bind2(x, y, LAMBDA a, b :
    Norm([i \in 1..Width(a, b) |-> DigitAnd(Digit(a, i), Digit(b, i))]))

\* x >> n, n >= 0
Shr(x, n) ==
  Bind2(x, n, LAMBDA a, m :
    LET q == m \div 8
        r == m % 8
    IN Norm([i \in 1..(IF Len(a) > q THEN Len(a) - q ELSE 0) |->
               (Digit(a, i + q) \div (2 ^ r))
                 + (Digit(a, i + q + 1) % (2 ^ r)) * (2 ^ (8 - r))]))

\* x << n, n >= 0
Shl(x, n) ==
  Bind2(x, n, LAMBDA a, m :
    LET q == m \div 8
        r == m % 8
    IN Norm([i \in 1..(Len(a) + q + 1) |->
               IF i <= q THEN 0
               ELSE ((Digit(a, i - q) * (2 ^ r)) % Base)
                      + (Digit(a, i - q - 1) \div (2 ^ (8 - r)))]))

RECURSIVE AddFrom(_, _, _, _)
AddFrom(a, b, i, c) ==
  IF i > Width(a, b)
  THEN (IF c = 0 THEN <<>> ELSE <<c>>)
  ELSE Bind2(i, Digit(a, i) + Digit(b, i) + c, LAMBDA j, s :
         <<s % Base>> \o AddFrom(a, b, j + 1, s \div Base))

\* x + y
Add(x, y) == Bind2(x, y, LAMBDA a, b : Norm(AddFrom(a, b, 1, 0)))

RECURSIVE SubFrom(_, _, _, _)
SubFrom(a, b, i, c) ==
  IF i > Len(a)
  THEN <<>>
  ELSE Bind2(i, Digit(a, i) - Digit(b, i) - c, LAMBDA j, s :
         <<(s + Base) % Base>> \o SubFrom(a, b, j + 1, IF s < 0 THEN 1 ELSE 0))

\* x - y, for x >= y
Sub(x, y) == Bind2(x, y, LAMBDA a, b : Norm(SubFrom(a, b, 1, 0)))

LessV(a, b) ==
  LET d == {i \in 1..Width(a, b) : Digit(a, i) # Digit(b, i)}
  IN d # {} /\ Bind(SetMax(d), LAMBDA m : Digit(a, m) < Digit(b, m))

\* x < y
Less(x, y) == Bind2(x, y, LAMBDA a, b : LessV(a, b))

\* x <= y
Leq(x, y) == Bind2(x, y, LAMBDA a, b : a = b \/ LessV(a, b))

One == <<1>>

\* 2 ** n
Pow2(n) == Shl(One, n)

(***************************************************************************)
(* Signed integers                                                         *)
(***************************************************************************)
MkInt(neg, mag) == Bind(mag, LAMBDA m : [neg |-> neg /\ m # <<>>, mag |-> m])

Pos(mag) == MkInt(FALSE, mag)

\* a + b for signed a, b
IntAdd(x, y) ==
  Bind2(x, y, LAMBDA a, b :
    IF a.neg = b.neg
    THEN MkInt(a.neg, Add(a.mag, b.mag))
    ELSE IF Leq(b.mag, a.mag)
         THEN MkInt(a.neg, Sub(a.mag, b.mag))
         ELSE MkInt(b.neg, Sub(b.mag, a.mag)))

\* a <= b for signed a, b
IntLeq(x, y) ==
  Bind2(x, y, LAMBDA a, b :
    IF a.neg /\ ~b.neg THEN TRUE
    ELSE IF ~a.neg /\ b.neg THEN FALSE
    ELSE IF a.neg THEN Leq(b.mag, a.mag)
    ELSE Leq(a.mag, b.mag))

IntLess(x, y) == Bind2(x, y, LAMBDA a, b : IntLeq(a, b) /\ a # b)

(***************************************************************************)
(* Python's int(s, 16)                                                     *)
(***************************************************************************)
HexDigits ==
  <<"0", "1", "2", "3", "4", "5", "6", "7", "8", "9", "a", "b", "c", "d", "e", "f">>

UpperHexDigits ==
  <<"0", "1", "2", "3", "4", "5", "6", "7", "8", "9", "A", "B", "C", "D", "E", "F">>

IsHexDigit(c) == \E i \in 1..16 : HexDigits[i] = c \/ UpperHexDigits[i] = c

HexVal(c) == (CHOOSE i \in 1..16 : HexDigits[i] = c \/ UpperHexDigits[i] = c) - 1

Whitespace == {" "}

\* str.strip() as int() applies it to its argument
Strip(s) ==
  LET ink == {i \in 1..Len(s) : s[i] \notin Whitespace}
  IN IF ink = {} THEN <<>> ELSE SubSeq(s, SetMin(ink), SetMax(ink))

HasSign(t) == Len(t) >= 1 /\ t[1] \in {"+", "-"}

DropSign(t) == IF HasSign(t) THEN Tail(t) ELSE t

\* With base 16 an optional "0x"/"0X" is skipped, and one underscore after it.
HasBasePrefix(u) == Len(u) >= 2 /\ u[1] = "0" /\ u[2] \in {"x", "X"}

DropBasePrefix(u) ==
  IF HasBasePrefix(u)
  THEN (IF Len(u) >= 3 /\ u[3] = "_" THEN SubSeq(u, 4, Len(u)) ELSE SubSeq(u, 3, Len(u)))
  ELSE u

\* Digits, with single underscores allowed between two digits only.
WellFormedDigits(d) ==
  /\ d # <<>>
  /\ \A i \in 1..Len(d) : IsHexDigit(d[i]) \/ d[i] = "_"
  /\ d[1] # "_"
  /\ d[Len(d)] # "_"
  /\ \A i \in 1..(Len(d) - 1) : ~(d[i] = "_" /\ d[i + 1] = "_")

\* The value of the digits, underscores skipped: two hex digits per base-256 digit
DigitsValue(d) ==
  Bind(SelectSeq(d, LAMBDA c : c # "_"), LAMBDA h :
    LET n == Len(h)
        nib(j) == IF j >= 1 THEN HexVal(h[j]) ELSE 0
    IN Norm([i \in 1..((n + 1) \div 2) |->
               nib(n - 2 * (i - 1)) + 16 * nib(n - 2 * (i - 1) - 1)]))

Ok(v) == [err |-> "none", val |-> v]

Raise(e) == [err |-> e, val |-> <<>>]

Failed(r) == r.err # "none"

\* "r = f(...)" followed by code that uses r: an exception raised by f propagates
Try(x, F(_)) == Bind(x, LAMBDA r : IF Failed(r) THEN r ELSE F(r.val))

\* int(s, 16): a signed integer, or ValueError
PyInt16(s) ==
  Bind(Strip(s), LAMBDA t :
    Bind(DropBasePrefix(DropSign(t)), LAMBDA d :
      IF WellFormedDigits(d)
      THEN Ok(MkInt(HasSign(t) /\ t[1] = "-", DigitsValue(d)))
      ELSE Raise("ValueError")))

(***************************************************************************)
(* FixedSizeUInt, NodeID, NetworkID                                        *)
(***************************************************************************)
NodeIDSize == 40

NetworkIDSize == 64

\* max_value without the "- 1": 2^size itself is accepted
max_value_inclusive(size) == Pow2(size)

\* FixedSizeUInt.max_value
max_value(size) == Sub(Pow2(size), One)

\* FixedSizeUInt.__new__ for a class of the given size: the value as an
\* unsigned integer, or ValueError when it is outside [0, max_value].
FixedSizeUInt(size, value) ==
  Bind2(max_value(size), value, LAMBDA cls_max, v :
    IF IntLeq(Pos(<<>>), v) /\ IntLeq(v, Pos(cls_max))
    THEN Ok(v.mag)
    ELSE Raise("ValueError"))

\* the hook without the range check: int(value, 16) alone
NodeID_unchecked(value) == Ok(value.mag)

NodeID(value) == FixedSizeUInt(NodeIDSize, value)

NetworkID(value) == FixedSizeUInt(NetworkIDSize, value)

(***************************************************************************)
(* ipaddress.IPv6Address and ipaddress.IPv6Network                         *)
(***************************************************************************)
AddrBits == 128

\* IPv6Address(i) for a signed integer i
IPv6Address(i) ==
  Bind(i, LAMBDA v :
    IF v.neg \/ ~Less(v.mag, Pow2(AddrBits)) THEN Raise("AddressValueError") ELSE Ok(v.mag))

HostMask(plen) == Sub(Pow2(AddrBits - plen), One)

\* IPv6Network((address, plen)), strict: address is a signed integer
IPv6Network(address, plen) ==
  Try(IPv6Address(address), LAMBDA a :
    Bind(plen, LAMBDA n :
      IF n < 0 \/ n > AddrBits THEN Raise("NetmaskValueError")
      ELSE IF And(a, HostMask(n)) # <<>> THEN Raise("ValueError")
      ELSE Ok([addr |-> a, plen |-> n])))

Broadcast(net) == Bind(net, LAMBDA v : Add(v.addr, HostMask(v.plen)))

\* net[n] for a signed integer n: _BaseNetwork.__getitem__
GetItem(net, n) ==
  Bind2(net, n, LAMBDA v, i :
    Bind(Broadcast(v), LAMBDA broadcast :
      IF ~i.neg
      THEN Bind(Add(v.addr, i.mag), LAMBDA a :
             IF Less(broadcast, a) THEN Raise("IndexError") ELSE IPv6Address(Pos(a)))
      ELSE Bind(IntAdd(Pos(broadcast), IntAdd(i, Pos(One))), LAMBDA a :
             IF IntLess(a, Pos(v.addr)) THEN Raise("IndexError") ELSE IPv6Address(a))))

\* net.supernet(new_prefix=p)
Supernet(net, p) ==
  Bind(net, LAMBDA v :
    IF v.plen = 0 THEN Ok(v)
    ELSE IF p > v.plen \/ p < 0 THEN Raise("ValueError")
    ELSE IPv6Network(Pos(And(v.addr, Sub(Pow2(AddrBits), Pow2(AddrBits - p)))), p))

\* address in net
InNet(a, net) == Bind2(a, net, LAMBDA x, v : Leq(v.addr, x) /\ Leq(x, Broadcast(v)))

\* every address of net lies in sup
SubnetOf(net, sup) ==
  Bind2(net, sup, LAMBDA v, w : Leq(w.addr, v.addr) /\ Leq(Broadcast(v), Broadcast(w)))

(***************************************************************************)
(* mk6plane                                                                *)
(***************************************************************************)
\* the fold with the shift of ifname: nwid >> 8*3
mk6plane_prefix_shift24(nwid) ==
  Bind(nwid, LAMBDA v : And(Xor(v, Shr(v, 8 * 3)), Sub(Shl(One, 8 * 4), One)))

\* prefix = (nwid ^ (nwid >> 8*4)) & ((1 << 8*4) - 1)
mk6plane_prefix(nwid) ==
  Bind(nwid, LAMBDA v : And(Xor(v, Shr(v, 8 * 4)), Sub(Shl(One, 8 * 4), One)))

\* (0xfc << 8*15) + (prefix << 8*11) + (nodeid << 8*6)
mk6plane_address(nwid, nodeid) ==
  Add(Add(Shl(FromNat(252), 8 * 15), Shl(mk6plane_prefix(nwid), 8 * 11)),
      Shl(nodeid, 8 * 6))

\* mk6plane with net.supernet(new_prefix=48): the supernet keeps 8 bits of the node id
mk6plane_supernet48(nwid, nodeid) ==
  Try(IPv6Network(Pos(mk6plane_address(nwid, nodeid)), 80), LAMBDA net :
    Try(Supernet(net, 48), LAMBDA sup :
      Try(GetItem(net, Pos(One)), LAMBDA first :
        Ok([supernet |-> sup, net |-> net, first |-> first]))))

\* mk6plane(nwid, nodeid): (supernet, device subnet, first address)
mk6plane(nwid, nodeid) ==
  Try(IPv6Network(Pos(mk6plane_address(nwid, nodeid)), 80), LAMBDA net :
    Try(Supernet(net, 40), LAMBDA sup :
      Try(GetItem(net, Pos(One)), LAMBDA first :
        Ok([supernet |-> sup, net |-> net, first |-> first]))))

(***************************************************************************)
(* ifname                                                                  *)
(***************************************************************************)
B32Alphabet ==
  <<"A", "B", "C", "D", "E", "F", "G", "H", "I", "J", "K", "L", "M", "N", "O", "P",
    "Q", "R", "S", "T", "U", "V", "W", "X", "Y", "Z", "2", "3", "4", "5", "6", "7">>

LowerAlphabet ==
  <<"a", "b", "c", "d", "e", "f", "g", "h", "i", "j", "k", "l", "m", "n", "o", "p",
    "q", "r", "s", "t", "u", "v", "w", "x", "y", "z">>

\* str.lower() of one character
LowerChar(c) ==
  IF \E i \in 1..26 : B32Alphabet[i] = c
  THEN LowerAlphabet[CHOOSE i \in 1..26 : B32Alphabet[i] = c]
  ELSE c

Lower(s) == Bind(s, LAMBDA v : [i \in 1..Len(v) |-> LowerChar(v[i])])

\* x.to_bytes(n, "big"): n bytes, most significant first, or OverflowError
to_bytes(x, n) ==
  Bind(x, LAMBDA v :
    IF Len(v) > n THEN Raise("OverflowError")
    ELSE Ok([i \in 1..n |-> Digit(v, n + 1 - i)]))

\* int.from_bytes(b, "big")
from_bytes(b) == Bind(b, LAMBDA v : Norm([i \in 1..Len(v) |-> v[Len(v) + 1 - i]]))

\* b32encode of one 5-byte group: 8 characters, 5 bits each, no padding
b32encode(b) ==
  Bind(from_bytes(b), LAMBDA c :
    [j \in 1..8 |-> B32Alphabet[ToNat(And(Shr(c, 40 - 5 * j), FromNat(31))) + 1]])

\* trial added after the exclusive-or: ((nwid ^ (nwid >> 8*3)) + trial) & mask
ifname_nwid40_xor_first(nwid, trial) ==
  Bind(nwid, LAMBDA v :
    And(Add(Xor(v, Shr(v, 8 * 3)), FromNat(trial)), Sub(Shl(One, 8 * 5), One)))

\* nwid40 = (nwid ^ (nwid >> 8*3) + trial) & ((1 << 8*5) - 1)
ifname_nwid40(nwid, trial) ==
  Bind(nwid, LAMBDA v :
    And(Xor(v, Add(Shr(v, 8 * 3), FromNat(trial))), Sub(Shl(One, 8 * 5), One)))

\* ifname(nwid, trial)
ifname(nwid, trial) ==
  Try(to_bytes(ifname_nwid40(nwid, trial), 5), LAMBDA b :
    Ok(<<"z", "t">> \o Lower(b32encode(b))))

(***************************************************************************)
(* config_suffix_append                                                    *)
(***************************************************************************)
\* The two forms of a suffix: a string, or a tuple (string, int).
StrSuffix(s) == [kind |-> "str", s |-> s, n |-> 0]

TupleSuffix(s, n) == [kind |-> "tuple", s |-> s, n |-> n]

\* x << n for a signed x: ValueError on a negative shift count
IntShl(x, n) ==
  Bind2(x, n, LAMBDA v, m :
    IF m < 0 THEN Raise("ValueError") ELSE Ok(MkInt(v.neg, Shl(v.mag, m))))

\* nsuffix without the shift of the string form
suffix_nsuffix_unshifted(net, suffix) == PyInt16(suffix.s)

\* nsuffix of config_suffix_append
suffix_nsuffix(net, suffix) ==
  Try(PyInt16(suffix.s), LAMBDA v :
    IF suffix.kind = "str"
    THEN IntShl(v, AddrBits - net.plen - Len(suffix.s) * 4)
    ELSE Ok(v))

\* plen with the tuple's number added to the parent's prefix length
suffix_plen_relative(net, suffix) ==
  IF suffix.kind = "str" THEN Len(suffix.s) * 4 + net.plen ELSE suffix.n + net.plen

\* plen of config_suffix_append
suffix_plen(net, suffix) ==
  IF suffix.kind = "str" THEN Len(suffix.s) * 4 + net.plen ELSE suffix.n

\* config_suffix_append(net, suffix)
config_suffix_append(net, suffix) ==
  Bind2(net, suffix, LAMBDA v, s :
    Try(suffix_nsuffix(v, s), LAMBDA nsuffix :
      Try(GetItem(v, nsuffix), LAMBDA a :
        IPv6Network(Pos(a), suffix_plen(v, s)))))

(***************************************************************************)
(* Config and IfaceConfig                                                  *)
(***************************************************************************)
\* Config.zt_iface
zt_iface(config) == ifname(config.network_id, 0)

\* Config.zt_6plane_nets
zt_6plane_nets(config) ==
  Try(mk6plane(config.network_id, config.node_id), LAMBDA r :
    Ok([supernet |-> r.supernet, net |-> r.net]))

\* Config.with_prefix
config_with_prefix(config) ==
  Try(zt_6plane_nets(config), LAMBDA nets :
    config_suffix_append(nets.net, config.suffix))

\* IfaceConfig.with_prefix: parentOf is the iface's _parent, NoParent while
\* the attribute has not been assigned.
NoParent == [set |-> FALSE]

ParentRef(config) == [set |-> TRUE, config |-> config]

iface_with_prefix(iface, parentOf) ==
  IF ~parentOf.set THEN Raise("AttributeError")
  ELSE Try(config_with_prefix(parentOf.config), LAMBDA p :
         config_suffix_append(p, StrSuffix(iface.suffix)))

\* format_client by address arithmetic, without the bound of net[...]
format_client_unchecked(iface, parentOf, suffix) ==
  Try(iface_with_prefix(iface, parentOf), LAMBDA net :
    Try(PyInt16(suffix), LAMBDA n : IPv6Address(IntAdd(Pos(net.addr), n))))

\* IfaceConfig.format_client
format_client(iface, parentOf, suffix) ==
  Try(iface_with_prefix(iface, parentOf), LAMBDA net :
    Try(PyInt16(suffix), LAMBDA n : GetItem(net, n)))

\* IfaceConfig.statics, iterated to the end: the pairs, or the first error
RECURSIVE statics_from(_, _, _)
statics_from(iface, parentOf, j) ==
  IF j > Len(iface.static_clients) THEN Ok(<<>>)
  ELSE Try(format_client(iface, parentOf, iface.static_clients[j][2]), LAMBDA a :
         Try(statics_from(iface, parentOf, j + 1), LAMBDA rest :
           Ok(<<(<<iface.static_clients[j][1], a>>)>> \o rest)))

statics(iface, parentOf) == statics_from(iface, parentOf, 1)

(***************************************************************************)
(* State                                                                   *)
(***************************************************************************)
VARIABLES
  pc,      \* position of main() / of a single function call
  record,  \* the dict handed to Config.from_dict
  self,    \* the Config built by from_dict
  parent,  \* parent[j]: the _parent attribute of the j-th IfaceConfig
  k,       \* position of the loop over self.ifaces.items()
  out,     \* what the template asked of the config last, and the answer
  call,    \* a function call: the function and its arguments
  ret      \* the values the call returned

vars == <<pc, record, self, parent, k, out, call, ret>>

(***************************************************************************)
(* Bounds and inputs                                                       *)
(***************************************************************************)
MaxLen == 3

MaxIfaces == 2

MaxTrial == 3

Alphabet == {"0", "1", "a", "F", "x", "_", "-", " ", "z"}

\* every string of at most n characters
Strings(n) == UNION {[1..m -> Alphabet] : m \in 0..n}

ExampleNetworkId == <<"0", "0", "0", "0", "0", "0", "8", "0", "5", "6", "c", "9", "f", "3", "a", "3">>

ExampleNodeId == <<"8", "c", "9", "a", "3", "b", "1", "a", "2", "e">>

NetworkIdInputs ==
  { ExampleNetworkId,
    <<"f", "f", "f", "f", "f", "f", "f", "f", "f", "f", "f", "f", "f", "f", "f", "f">>,
    <<"1", "0", "0", "0", "0", "0", "0", "0", "0", "0", "0", "0", "0", "0", "0", "0", "0">>,
    <<"z", "z">> }

NodeIdInputs ==
  { ExampleNodeId,
    <<"0">>,
    <<"1", "0", "0", "0", "0", "0", "0", "0", "0", "0", "0">>,
    <<"-", "1">> }

ConfigSuffixInputs ==
  { StrSuffix(<<"1">>), StrSuffix(<<"a", "b">>), StrSuffix(<<"z", "z">>),
    StrSuffix(<<"0", "x", "1">>),
    TupleSuffix(<<"0">>, 84), TupleSuffix(<<"0">>, 40), TupleSuffix(<<"1">>, 96),
    TupleSuffix(<<"1", "0", "0", "0", "0", "0", "0", "0", "0">>, 96) }

IfaceInputs ==
  { [suffix |-> <<"1">>, static_clients |-> <<>>],
    [suffix |-> <<"2", "f">>,
     static_clients |-> << <<"fe80::1", <<"1">> >>, <<"fe80::2", <<"f", "f", "f", "f">> >> >>],
    [suffix |-> <<"z", "z">>, static_clients |-> << <<"fe80::1", <<"1">> >> >>] }

Records ==
  [ version : {1, 2},
    node_id : NodeIdInputs,
    network_id : NetworkIdInputs,
    suffix : ConfigSuffixInputs,
    ifaces : UNION {[1..m -> IfaceInputs] : m \in 0..MaxIfaces} ]

NoConfig == [version |-> 0, node_id |-> <<>>, network_id |-> <<>>,
             suffix |-> StrSuffix(<<>>), ifaces |-> <<>>]

NoOut == [q |-> "none", j |-> 0, r |-> Raise("none")]

NoCall == [fn |-> "none"]

(***************************************************************************)
(* main(): Config.from_dict, then the templates read the config            *)
(***************************************************************************)
\* dacite's from_dict(Config, dict, type_hooks): the fields in declaration
\* order, node_id and network_id through their hooks
dacite_from_dict(dict) ==
  IF dict.version # 1 THEN Raise("WrongTypeError")
  ELSE Try(Try(PyInt16(dict.node_id), LAMBDA v : NodeID(v)), LAMBDA nodeid :
         Try(Try(PyInt16(dict.network_id), LAMBDA v : NetworkID(v)), LAMBDA nwid :
           Ok([version |-> dict.version, node_id |-> nodeid, network_id |-> nwid,
               suffix |-> dict.suffix, ifaces |-> dict.ifaces])))

\* Config.from_dict, up to the loop
FromDictBuild ==
  /\ pc = "start"
  /\ \E r \in {dacite_from_dict(record)} :
        IF Failed(r)
        THEN /\ pc' = "failed"
             /\ out' = [q |-> "from_dict", j |-> 0, r |-> r]
             /\ UNCHANGED <<self, parent, k>>
        ELSE /\ pc' = "wiring"
             /\ self' = r.val
             /\ parent' = [j \in 1..Len(r.val.ifaces) |-> NoParent]
             /\ k' = 1
             /\ out' = out
  /\ UNCHANGED <<record, call, ret>>

\* the loop assigning to the first interface every time
wire_first(j) == [parent EXCEPT ![1] = ParentRef(self)]

\* one iteration of "for name, config in self.ifaces.items()"
wire(j) == [parent EXCEPT ![j] = ParentRef(self)]

FromDictWire ==
  /\ pc = "wiring"
  /\ k <= Len(self.ifaces)
  /\ parent' = wire(k)
  /\ k' = k + 1
  /\ UNCHANGED <<pc, record, self, out, call, ret>>

\* "return self"
FromDictReturn ==
  /\ pc = "wiring"
  /\ k > Len(self.ifaces)
  /\ pc' = "ready"
  /\ UNCHANGED <<record, self, parent, k, out, call, ret>>

\* The template reads one attribute of the config.  No attribute changes the
\* config, so what a template reads later is what it would have read first.
Answer(q, j, r) ==
  /\ pc = "ready"
  /\ pc' = "rendered"
  /\ out' = [q |-> q, j |-> j, r |-> r]
  /\ UNCHANGED <<record, self, parent, k, call, ret>>

RenderZtIface == Answer("zt_iface", 0, zt_iface(self))

RenderNets == Answer("zt_6plane_nets", 0, zt_6plane_nets(self))

RenderWithPrefix == Answer("with_prefix", 0, config_with_prefix(self))

RenderIfaceWithPrefix ==
  \E j \in 1..Len(self.ifaces) :
    Answer("iface.with_prefix", j, iface_with_prefix(self.ifaces[j], parent[j]))

RenderStatics ==
  \E j \in 1..Len(self.ifaces) :
    Answer("iface.statics", j, statics(self.ifaces[j], parent[j]))

Init ==
  /\ pc = "start"
  /\ record \in Records
  /\ self = NoConfig
  /\ parent = <<>>
  /\ k = 0
  /\ out = NoOut
  /\ call = NoCall
  /\ ret = <<>>

Next ==
  \/ FromDictBuild
  \/ FromDictWire
  \/ FromDictReturn
  \/ RenderZtIface
  \/ RenderNets
  \/ RenderWithPrefix
  \/ RenderIfaceWithPrefix
  \/ RenderStatics

Spec == Init /\ [][Next]_vars

(***************************************************************************)
(* The functions on their own: FixedSizeUInt, mk6plane, ifname             *)
(***************************************************************************)
\* A hex literal as an integer
Hex(s) == PyInt16(s).val

IntInputs ==
  { Hex(<<"-", "1">>), Hex(<<"0">>), Hex(<<"1">>),
    Hex(<<"f", "f", "f", "f", "f", "f", "f", "f", "f", "f">>),
    Hex(<<"1", "0", "0", "0", "0", "0", "0", "0", "0", "0", "0">>),
    Hex(<<"1", "0", "0", "0", "0", "0", "0", "0", "0", "0", "1">>),
    Hex(ExampleNetworkId), Hex(ExampleNodeId),
    Hex(<<"f", "f", "f", "f", "f", "f", "f", "f", "f", "f", "f", "f", "f", "f", "f", "f">>),
    Hex(<<"1", "0", "0", "0", "0", "0", "0", "0", "0", "0", "0", "0", "0", "0", "0", "0", "0">>),
    Hex(<<"-", "1", "0", "0", "0", "0", "0", "0", "0", "0", "0", "0">>) }

NetworkIds ==
  { i.mag : i \in {j \in IntInputs : ~Failed(NetworkID(j))} }
    \cup { Hex(<<"1", "0", "0", "0", "0", "0", "0", "0", "1">>).mag,
           Hex(<<"d", "e", "a", "d", "b", "e", "e", "f", "0", "0", "c", "0", "f", "f", "e", "e">>).mag }

NodeIds == { i.mag : i \in {j \in IntInputs : ~Failed(NodeID(j))} }

FnInit ==
  /\ pc = "call"
  /\ \/ call \in [fn : {"FixedSizeUInt"}, size : {NodeIDSize, NetworkIDSize}, value : IntInputs]
     \/ call \in [fn : {"mk6plane"}, nwid : NetworkIds, nodes : NodeIds \X NodeIds]
     \/ call \in [fn : {"ifname"}, nwid : NetworkIds, trial : 0..MaxTrial]
  /\ ret = <<>>
  /\ record = <<>>
  /\ self = NoConfig
  /\ parent = <<>>
  /\ k = 0
  /\ out = NoOut

CallFixedSizeUInt ==
  /\ pc = "call"
  /\ call.fn = "FixedSizeUInt"
  /\ ret' = <<FixedSizeUInt(call.size, call.value)>>
  /\ pc' = "done"
  /\ UNCHANGED <<record, self, parent, k, out, call>>

\* mk6plane for each node id of the call, in turn, in the same network
CallMk6plane ==
  /\ pc = "call"
  /\ call.fn = "mk6plane"
  /\ ret' = Append(ret, mk6plane(call.nwid, call.nodes[Len(ret) + 1]))
  /\ pc' = IF Len(ret) + 1 = Len(call.nodes) THEN "done" ELSE "call"
  /\ UNCHANGED <<record, self, parent, k, out, call>>

CallIfname ==
  /\ pc = "call"
  /\ call.fn = "ifname"
  /\ ret' = <<ifname(call.nwid, call.trial)>>
  /\ pc' = "done"
  /\ UNCHANGED <<record, self, parent, k, out, call>>

FnNext == CallFixedSizeUInt \/ CallMk6plane \/ CallIfname

SpecFn == FnInit /\ [][FnNext]_vars

(***************************************************************************)
(* The functions on their own: config_suffix_append, format_client         *)
(***************************************************************************)
ExampleConfig ==
  [version |-> 1, node_id |-> Hex(ExampleNodeId).mag, network_id |-> Hex(ExampleNetworkId).mag,
   suffix |-> StrSuffix(<<"1">>), ifaces |-> <<>>]

ExampleNet == zt_6plane_nets(ExampleConfig).val.net

Zeros(n) == [i \in 1..n |-> "0"]

\* the network at an offset of ExampleNet's address
SubnetAt(offset, plen) == [addr |-> Add(ExampleNet.addr, offset), plen |-> plen]

\* the device subnet and networks below it, down to a single address
ParentNets ==
  { ExampleNet,
    SubnetAt(<<>>, 81),
    SubnetAt(Shl(Hex(<<"a", "b", "c", "d">>).mag, 32), 96),
    SubnetAt(Pow2(44), 120),
    SubnetAt(Pow2(44), 124),
    SubnetAt(Pow2(44), 128) }

TupleStrings ==
  { <<"0">>, <<"1">>, <<"z", "z">>, <<"-", "1">>, <<"1">> \o Zeros(7), <<"1">> \o Zeros(11),
    <<"1">> \o Zeros(12) }

TuplePlens == {-1, 40, 80, 81, 84, 100, 124, 128, 129}

\* interfaces of ExampleConfig with working subnets /88, /124 and /128
ClientIfaces ==
  { [suffix |-> s, static_clients |-> <<>>] : s \in {<<"1">>, <<"1">> \o Zeros(9), <<"1">> \o Zeros(10)} }

AllocInit ==
  /\ pc = "call"
  /\ \/ call \in [fn : {"config_suffix_append"}, net : ParentNets,
                  suffix : {StrSuffix(s) : s \in Strings(MaxLen)}]
     \/ call \in [fn : {"config_suffix_append"}, net : ParentNets,
                  suffix : {TupleSuffix(s, n) : s \in TupleStrings, n \in TuplePlens}]
     \/ call \in [fn : {"format_client"}, iface : ClientIfaces,
                  parentOf : {ParentRef(ExampleConfig)}, suffix : Strings(MaxLen)]
  /\ ret = <<>>
  /\ record = <<>>
  /\ self = NoConfig
  /\ parent = <<>>
  /\ k = 0
  /\ out = NoOut

CallSuffixAppend ==
  /\ pc = "call"
  /\ call.fn = "config_suffix_append"
  /\ ret' = <<config_suffix_append(call.net, call.suffix)>>
  /\ pc' = "done"
  /\ UNCHANGED <<record, self, parent, k, out, call>>

CallFormatClient ==
  /\ pc = "call"
  /\ call.fn = "format_client"
  /\ ret' = <<format_client(call.iface, call.parentOf, call.suffix)>>
  /\ pc' = "done"
  /\ UNCHANGED <<record, self, parent, k, out, call>>

AllocNext == CallSuffixAppend \/ CallFormatClient

SpecAlloc == AllocInit /\ [][AllocNext]_vars

(***************************************************************************)
(* Properties                                                              *)
(***************************************************************************)
\* a string of [0-9a-fA-F]+
StrictHex(s) == s # <<>> /\ \A i \in 1..Len(s) : IsHexDigit(s[i])

\* the low n base-256 digits of x: x AND (2^(8n) - 1)
LowDigits(x, n) == NormV(SubSeq(x, 1, IF Len(x) < n THEN Len(x) ELSE n))

Done(fn) == pc = "done" /\ call.fn = fn

\* C8: for W in {40, 64}, a value in [0, 2^W - 1] is accepted and the result
\* equals it; a value below 0 or above 2^W - 1 (2^W and -1 included) fails
\* with an error and yields no object.
C8_FixedWidthRange ==
  Done("FixedSizeUInt") =>
    IF ~call.value.neg /\ Less(call.value.mag, Pow2(call.size))
    THEN ret[1] = Ok(call.value.mag)
    ELSE ret[1] = Raise("ValueError")

C8_Witness ==
  /\ Done("FixedSizeUInt")
  /\ call.value = Pos(Pow2(call.size))
  /\ Failed(ret[1])

\* fc56:c9f3:238c:9a3b:1a2e::, least significant byte first
GoldenAddress == <<0, 0, 0, 0, 0, 0, 46, 26, 59, 154, 140, 35, 243, 201, 86, 252>>

\* The 16 bytes of the 6plane address, least significant first: 6 zero bytes,
\* the 5 bytes of the node id, the 4 bytes of the folded network id, 0xfc.
SixPlaneAddress(nwid, nodeid) ==
  [i \in 1..16 |->
     IF i <= 6 THEN 0
     ELSE IF i <= 11 THEN Digit(nodeid, i - 6)
     ELSE IF i <= 15 THEN DigitXor(Digit(nwid, i - 11), Digit(nwid, i - 7))
     ELSE 252]

\* C5: mk6plane returns a device subnet of prefix length 80 at
\* (0xFC << 120) + (folded << 88) + (node_id << 48), folded the 32-bit fold of
\* the network id, and first_address one above it; the example ids give
\* fc56:c9f3:238c:9a3b:1a2e::/80.
C5_SixPlaneAddress ==
  (call.fn = "mk6plane") =>
    \A i \in 1..Len(ret) :
      /\ ~Failed(ret[i])
      /\ ret[i].val.net = [addr |-> SixPlaneAddress(call.nwid, call.nodes[i]), plen |-> 80]
      /\ ret[i].val.first = [ret[i].val.net.addr EXCEPT ![1] = 1]
      /\ (call.nwid = Hex(ExampleNetworkId).mag /\ call.nodes[i] = Hex(ExampleNodeId).mag
            => ret[i].val.net.addr = GoldenAddress)

C5_Witness ==
  /\ Done("mk6plane")
  /\ call.nwid = Hex(ExampleNetworkId).mag
  /\ call.nodes[1] = Hex(ExampleNodeId).mag
  /\ ret[1] = Ok([supernet |-> [addr |-> <<0, 0, 0, 0, 0, 0, 0, 0, 0, 0, 0, 35, 243, 201, 86, 252>>,
                                plen |-> 40],
                  net |-> [addr |-> GoldenAddress, plen |-> 80],
                  first |-> <<1, 0, 0, 0, 0, 0, 46, 26, 59, 154, 140, 35, 243, 201, 86, 252>>])

\* C6: for two node ids of one network mk6plane returns the same supernet,
\* of prefix length 40, containing every address of each /80 device subnet.
C6_SharedSupernet ==
  Done("mk6plane") =>
    /\ \A i \in 1..2 : ~Failed(ret[i])
    /\ ret[1].val.supernet = ret[2].val.supernet
    /\ \A i \in 1..2 :
         /\ ret[i].val.supernet.plen = 40
         /\ SubnetOf(ret[i].val.net, ret[i].val.supernet)

C6_Witness ==
  /\ Done("mk6plane")
  /\ call.nodes[1] # call.nodes[2]
  /\ ret[1].val.net # ret[2].val.net
  /\ ret[1].val.supernet = ret[2].val.supernet

B32Lower ==
  <<"a", "b", "c", "d", "e", "f", "g", "h", "i", "j", "k", "l", "m", "n", "o", "p",
    "q", "r", "s", "t", "u", "v", "w", "x", "y", "z", "2", "3", "4", "5", "6", "7">>

\* the number a name spells after "zt": 8 base-32 digits, most significant first
RECURSIVE B32Value(_, _)
B32Value(name, j) ==
  IF j > 10 THEN <<>>
  ELSE Add(Shl(FromNat((CHOOSE i \in 1..32 : B32Lower[i] = name[j]) - 1), 5 * (10 - j)),
           B32Value(name, j + 1))

\* C7: ifname returns "zt" and the lowercase base-32 encoding of the 5 bytes
\* of (nwid XOR ((nwid >> 24) + trial)) AND (2^40 - 1): 10 characters matching
\* zt[a-z2-7]{8}, also when (nwid >> 24) + trial carries past bit 39.
C7_InterfaceName ==
  Done("ifname") =>
    /\ ~Failed(ret[1])
    /\ Len(ret[1].val) = 10
    /\ ret[1].val[1] = "z"
    /\ ret[1].val[2] = "t"
    /\ \A j \in 3..10 : \E i \in 1..32 : B32Lower[i] = ret[1].val[j]
    /\ B32Value(ret[1].val, 3)
         = LowDigits(Xor(call.nwid, Add(Shr(call.nwid, 24), FromNat(call.trial))), 5)

C7_Witness ==
  /\ Done("ifname")
  /\ call.trial > 0
  /\ ~Less(Add(Shr(call.nwid, 24), FromNat(call.trial)), Pow2(40))
  /\ ~Failed(ret[1])
  /\ Len(ret[1].val) = 10

\* the interface's working subnet of a format_client call
ClientSubnet == iface_with_prefix(call.iface, call.parentOf).val

\* C9: for a working subnet S and a valid hex offset h, format_client returns
\* S's network address plus parse_hex(h), inside S, when parse_hex(h) is at
\* most 2^(128 - S.prefix_length) - 1, and fails otherwise.
C9_FormatClient ==
  (Done("format_client") /\ StrictHex(call.suffix)) =>
    IF Less(Hex(call.suffix).mag, Pow2(AddrBits - ClientSubnet.plen))
    THEN /\ ret[1] = Ok(Add(ClientSubnet.addr, Hex(call.suffix).mag))
         /\ InNet(ret[1].val, ClientSubnet)
    ELSE Failed(ret[1])

C9_Witness ==
  /\ Done("format_client")
  /\ StrictHex(call.suffix)
  /\ ClientSubnet.plen = 124
  /\ ret[1] = Raise("IndexError")

C3_StrictHexParsing ==
  /\ (Done("config_suffix_append") /\ call.suffix.kind = "str" /\ ~StrictHex(call.suffix.s))
       => Failed(ret[1])
  /\ (Done("format_client") /\ ~StrictHex(call.suffix)) => Failed(ret[1])

\* the /80 device subnet of the config
DevNet == zt_6plane_nets(self).val.net

Asked(q) == pc = "rendered" /\ out.q = q /\ ~Failed(out.r)

SuffixBits(suffix) == IF suffix.kind = "str" THEN 4 * Len(suffix.s) ELSE suffix.n

ValidId(s, W) ==
  /\ ~Failed(PyInt16(s))
  /\ ~PyInt16(s).val.neg
  /\ Less(PyInt16(s).val.mag, Pow2(W))

Returned == pc \in {"wiring", "ready", "rendered"}

C10_TwoPass ==
  /\ pc \in {"ready", "rendered"} =>
       \A j \in 1..Len(self.ifaces) : parent[j] = ParentRef(self)
  /\ Returned =>
       /\ Ok(self) = dacite_from_dict(record)
       /\ Len(parent) = Len(self.ifaces)
  /\ pc = "wiring" =>
       \A j \in 1..Len(self.ifaces) :
         IF j < k THEN parent[j] = ParentRef(self)
         ELSE /\ parent[j] = NoParent
              /\ iface_with_prefix(self.ifaces[j], parent[j]) = Raise("AttributeError")
              /\ self.ifaces[j].static_clients # <<>>
                   => statics(self.ifaces[j], parent[j]) = Raise("AttributeError")

C10_Witness ==
  /\ pc = "ready"
  /\ Len(self.ifaces) = 2
  /\ \A j \in 1..2 : parent[j] = ParentRef(self)
  /\ self.ifaces[1].static_clients = <<>>

\* C10 as stated: before the loop has reached an interface, neither its
\* with_prefix nor its statics are computable.
C10_AsStated ==
  pc = "wiring" =>
    \A j \in k..Len(self.ifaces) :
      /\ Failed(iface_with_prefix(self.ifaces[j], parent[j]))
      /\ Failed(statics(self.ifaces[j], parent[j]))

====
